---- MODULE Spec2Model ----
(***************************************************************************)
(* A model of src/net.rs: the type-erased NetworkStream box and its        *)
(* downcasts, the HttpListener / HttpAcceptor / HttpStream state machine,  *)
(* HttpConnector::connect and lift_ssl_error.                              *)
(*                                                                         *)
(* Four specifications share the variables:                                *)
(*   SpecLift      lift_ssl_error applied to every SslError of a bounded   *)
(*                 input set;                                              *)
(*   SpecDowncast  boxes of NetworkStream objects, cloned, downcast and    *)
(*                 dropped;                                                *)
(*   Spec          listeners, acceptors and the streams they accept;       *)
(*   SpecConnect   the connector and the streams it opens.                 *)
(* Calls into std and openssl are external: each returns one of the        *)
(* outcomes its signature allows, chosen by the environment.               *)
(***************************************************************************)
EXTENDS FiniteSets, Integers, Sequences, TLC

VARIABLES
    sslIn,       \* SpecLift: the SslError handed to lift_ssl_error
    ioOut,       \* SpecLift: the IoError it returned (NoIoError before the call)
    heap,        \* SpecDowncast: allocation -> [type, value, status]
    boxes,       \* SpecDowncast: the boxes the caller owns
    boxed,       \* SpecDowncast: allocation -> the value that was boxed
    failedCasts, \* SpecDowncast: allocations whose wrapper survived a failed downcast
    dlast,       \* SpecDowncast: the last call and what it returned
    passive,     \* Spec: open passive sockets, id -> [state, closed, addr]
    boundAs,     \* Spec: what bind built for a passive socket, id -> [mode, ctx]
    listeners,   \* Spec: the HttpListener values the caller owns
    acceptors,   \* Spec: the HttpAcceptor handles, [tag, inner, ctx, n], n-th of its socket
    contexts,    \* Spec: server SslContexts, id -> settings
    conns,       \* Spec: the TCP connections that are open
    streams,     \* Spec: connection -> the HttpStream owning it
    connector,   \* Spec: HttpConnector.0, <<>> (None) or <<cb>> (Some(cb))
    hsFailed,    \* Spec: the passive sockets that have seen a server handshake fail
    last         \* Spec: the last call, the outcomes of its external calls, its result

liftVars == <<sslIn, ioOut>>
castVars == <<heap, boxes, boxed, failedCasts, dlast>>
netVars  == <<passive, boundAs, listeners, acceptors, contexts, conns, streams,
              connector, hsFailed, last>>
vars     == <<sslIn, ioOut, heap, boxes, boxed, failedCasts, dlast, passive, boundAs,
              listeners, acceptors, contexts, conns, streams, connector, hsFailed, last>>

(***************************************************************************)
(* Bounds                                                                  *)
(***************************************************************************)
MaxErrs  == 2    \* longest OpenSslErrors list
MaxAlloc == 2    \* allocations made in a run of SpecDowncast
MaxSock  == 1    \* passive sockets open at a time
MaxAcc   == 2    \* acceptor handles of one passive socket
MaxConn  == 1    \* connections open at a time

(***************************************************************************)
(* std::io::IoError and openssl::ssl::error::SslError                      *)
(***************************************************************************)
None == <<>>
Some(x) == <<x>>

IoError(kind, desc, detail) == [kind |-> kind, desc |-> desc, detail |-> detail]

NoIoError == IoError("", "", None)

IoKinds == {"ConnectionRefused", "ConnectionAborted", "OtherIoError",
            "InvalidInput", "EndOfFile"}

IoErrors == {IoError(k, d, t) : k \in IoKinds,
                                d \in {"io failed", "Error in OpenSSL",
                                       "SSL Connection Closed"},
                                t \in {None, Some("errno"), Some("[]")}}

\* The OpenSSL error queue entries, by code.
SslCodes == {1, 2, 3}

StreamError(err)    == [variant |-> "StreamError", err |-> err, errs |-> <<>>]
SslSessionClosed    == [variant |-> "SslSessionClosed", err |-> NoIoError, errs |-> <<>>]
OpenSslErrors(errs) == [variant |-> "OpenSslErrors", err |-> NoIoError, errs |-> errs]
NoSslError          == [variant |-> "", err |-> NoIoError, errs |-> <<>>]

SeqsUpTo(S, n) == UNION {[1..k -> S] : k \in 0..n}

SslErrors == {StreamError(e) : e \in IoErrors} \cup {SslSessionClosed}
             \cup {OpenSslErrors(l) : l \in SeqsUpTo(SslCodes, MaxErrs)}

\* fmt::Show of one queue entry.
ShowCode(c) == CASE c = 1 -> "UnknownError(1)"
                 [] c = 2 -> "UnknownError(2)"
                 [] OTHER -> "UnknownError(3)"

RECURSIVE ShowItems(_)
ShowItems(l) == IF l = <<>> THEN ""
                ELSE IF Len(l) = 1 THEN ShowCode(l[1])
                ELSE ShowCode(l[1]) \o ", " \o ShowItems(Tail(l))

\* format!("{}", errs) of the Vec of queue entries.
Format(errs) == "[" \o ShowItems(errs) \o "]"

lift_swapped(ssl) ==
    CASE ssl.variant = "StreamError" -> ssl.err
      [] ssl.variant = "SslSessionClosed" ->
            IoError("OtherIoError", "Error in OpenSSL", Some(Format(ssl.errs)))
      [] OTHER -> IoError("ConnectionAborted", "SSL Connection Closed", None)

lift_ssl_error(ssl) ==
    CASE ssl.variant = "StreamError" -> ssl.err
      [] ssl.variant = "SslSessionClosed" ->
            IoError("ConnectionAborted", "SSL Connection Closed", None)
      [] OTHER -> IoError("OtherIoError", "Error in OpenSSL", Some(Format(ssl.errs)))

(***************************************************************************)
(* SpecLift                                                                *)
(***************************************************************************)
CastIdle == /\ heap = <<>>
            /\ boxes = {}
            /\ boxed = <<>>
            /\ failedCasts = {}
            /\ dlast = <<>>

NetIdle == /\ passive = <<>>
           /\ boundAs = <<>>
           /\ listeners = {}
           /\ acceptors = {}
           /\ contexts = <<>>
           /\ conns = {}
           /\ streams = <<>>
           /\ connector = None
           /\ hsFailed = {}
           /\ last = <<>>

LiftIdle == /\ sslIn = NoSslError
            /\ ioOut = NoIoError

InitLift == /\ sslIn \in SslErrors
            /\ ioOut = NoIoError
            /\ CastIdle
            /\ NetIdle

Lift == /\ ioOut = NoIoError
        /\ ioOut' = lift_ssl_error(sslIn)
        /\ UNCHANGED <<sslIn, castVars, netVars>>

NextLift == Lift

SpecLift == InitLift /\ [][NextLift]_vars

\* C6: lift_ssl_error maps StreamError(err) to err unchanged, SslSessionClosed to
\* ConnectionAborted with the fixed description and no detail, and OpenSslErrors(errs)
\* to OtherIoError whose detail is the rendering of errs; it is total on the three
\* variants, and only the StreamError case yields a kind other than those two.
C6_LiftMapping ==
    ioOut # NoIoError =>
        /\ sslIn.variant = "StreamError" => ioOut = sslIn.err
        /\ sslIn.variant = "SslSessionClosed" =>
              /\ ioOut.kind = "ConnectionAborted"
              /\ ioOut.desc = "SSL Connection Closed"
              /\ ioOut.detail = None
        /\ sslIn.variant = "OpenSslErrors" =>
              /\ ioOut.kind = "OtherIoError"
              /\ ioOut.detail = Some(Format(sslIn.errs))
        /\ sslIn.variant \in {"StreamError", "SslSessionClosed", "OpenSslErrors"}
        /\ ioOut.kind \in IoKinds
        /\ ioOut.kind \notin {"ConnectionAborted", "OtherIoError"} =>
              sslIn.variant = "StreamError"

C6_Witness ==
    /\ ioOut # NoIoError
    /\ sslIn.variant = "OpenSslErrors"
    /\ Len(sslIn.errs) = 2
    /\ ioOut.detail = Some("[UnknownError(1), UnknownError(2)]")

(***************************************************************************)
(* SpecDowncast: Box<NetworkStream + Send>, its clone and its downcasts    *)
(***************************************************************************)
\* The concrete types that implement NetworkStream, and the downcast targets.
StreamTypes == {"MockStream", "HttpStream"}
TargetTypes == StreamTypes \cup {"TcpStream"}

\* The states a value of one concrete type can be in (compared with PartialEq).
Values == {0, 1}

DynBox(data, ty)  == [kind |-> "dyn", data |-> data, ty |-> ty]
TypedBox(data, T) == [kind |-> "box", data |-> data, ty |-> T]
NoBox             == [kind |-> "", data |-> 0, ty |-> ""]

\* Box's destructor runs on the allocation.
Free(h, id) == [h EXCEPT ![id].status = IF @ = "live" THEN "freed" ELSE "double"]

\* What the allocation holds when read through a pointer to T: itself when it is a
\* T, and otherwise (undefined behaviour) whatever v the bytes amount to.
Reinterpret(h, id, T, v) ==
    IF h[id].type = T THEN h
    ELSE [h EXCEPT ![id] = [type |-> T, value |-> v, status |-> @.status]]

is_any(self, T) == TRUE

\* self.get_type_id() == TypeId::of::<T>(), through the vtable.
is(self, T) == self.ty = T

mem_drop(self, h) == Free(h, self.data)

\* mem::forget(self): the wrapper goes away and its destructor does not run.
mem_forget(self, h) == h

downcast_unchecked(self, T, h, v) ==
    [out  |-> TypedBox(self.data, T),
     heap |-> mem_forget(self, Reinterpret(h, self.data, T, v))]

downcast(self, T, h, v) ==
    IF is(self, T)
    THEN [res |-> "Ok", out |-> downcast_unchecked(self, T, h, v).out,
          heap |-> downcast_unchecked(self, T, h, v).heap]
    ELSE [res |-> "Err", out |-> self, heap |-> h]

DCall(op, T, src, res, out) ==
    [op |-> op, T |-> T, src |-> src, res |-> res, out |-> out]

InitDowncast == /\ heap = <<>>
                /\ boxes = {}
                /\ boxed = <<>>
                /\ failedCasts = {}
                /\ dlast = DCall("", "", NoBox, "", NoBox)
                /\ LiftIdle
                /\ NetIdle

\* box X as Box<NetworkStream + Send>
BoxNew(ty, v) ==
    /\ Len(heap) < MaxAlloc
    /\ heap' = Append(heap, [type |-> ty, value |-> v, status |-> "live"])
    /\ boxed' = Append(boxed, v)
    /\ boxes' = boxes \cup {DynBox(Len(heap) + 1, ty)}
    /\ dlast' = DCall("box", ty, NoBox, "Ok", DynBox(Len(heap) + 1, ty))
    /\ UNCHANGED <<failedCasts, liftVars, netVars>>

\* Clone for Box<NetworkStream + Send>: clone_box boxes a clone of the value.
CloneBox(b) ==
    /\ b.kind = "dyn"
    /\ Len(heap) < MaxAlloc
    /\ heap' = Append(heap, [type |-> heap[b.data].type, value |-> heap[b.data].value,
                             status |-> "live"])
    /\ boxed' = Append(boxed, heap[b.data].value)
    /\ boxes' = boxes \cup {DynBox(Len(heap) + 1, b.ty)}
    /\ dlast' = DCall("clone", b.ty, b, "Ok", DynBox(Len(heap) + 1, b.ty))
    /\ UNCHANGED <<failedCasts, liftVars, netVars>>

Downcast(b, T, v) ==
    /\ b.kind = "dyn"
    /\ LET r == downcast(b, T, heap, v) IN
          /\ heap' = r.heap
          /\ boxes' = (boxes \ {b}) \cup {r.out}
          /\ failedCasts' = IF r.res = "Err" THEN failedCasts \cup {b.data}
                            ELSE failedCasts
          /\ dlast' = DCall("downcast", T, b, r.res, r.out)
    /\ UNCHANGED <<boxed, liftVars, netVars>>

DowncastUnchecked(b, T, v) ==
    /\ b.kind = "dyn"
    /\ LET r == downcast_unchecked(b, T, heap, v) IN
          /\ heap' = r.heap
          /\ boxes' = (boxes \ {b}) \cup {r.out}
          /\ dlast' = DCall("downcast_unchecked", T, b, "Ok", r.out)
    /\ UNCHANGED <<boxed, failedCasts, liftVars, netVars>>

\* A box the caller owns goes out of scope.
DropBox(b) ==
    /\ heap' = Free(heap, b.data)
    /\ boxes' = boxes \ {b}
    /\ dlast' = DCall("drop", "", b, "Ok", NoBox)
    /\ UNCHANGED <<boxed, failedCasts, liftVars, netVars>>

NextDowncast ==
    \/ \E ty \in StreamTypes, v \in Values : BoxNew(ty, v)
    \/ \E b \in boxes : CloneBox(b)
    \/ \E b \in boxes, T \in TargetTypes, v \in Values : Downcast(b, T, v)
    \/ \E b \in boxes, T \in TargetTypes, v \in Values : DowncastUnchecked(b, T, v)
    \/ \E b \in boxes : DropBox(b)

SpecDowncast == InitDowncast /\ [][NextDowncast]_vars

Owners(id) == {b \in boxes : b.data = id}

\* C1: downcast::<T>() returns Ok iff the wrapper's runtime type is T; Ok hands over
\* the one box of the value that was boxed, Err hands back the wrapper itself, still
\* owning that value, so a later downcast to the true type succeeds with it.
C1_CheckedDowncast ==
    dlast.op = "downcast" =>
        LET s == dlast.src IN
        /\ (dlast.res = "Ok") <=> (heap[s.data].type = dlast.T /\ s.ty = dlast.T)
        /\ dlast.res \in {"Ok", "Err"}
        /\ dlast.res = "Ok" =>
              /\ dlast.out = TypedBox(s.data, dlast.T)
              /\ s \notin boxes
        /\ dlast.res = "Err" => dlast.out = s
        /\ dlast.out \in boxes
        /\ heap[s.data].status = "live"
        /\ heap[s.data].type = s.ty
        /\ heap[s.data].value = boxed[s.data]

C1_Witness ==
    /\ dlast.op = "downcast"
    /\ dlast.res = "Ok"
    /\ dlast.src.data \in failedCasts
    /\ heap[dlast.out.data].value = 1

\* C2: downcast_unchecked::<T>() on a wrapper whose runtime type is T returns a box
\* of the value that was boxed, and the value then has exactly one owner: it is live
\* while that box is held, freed once when the box is dropped, never freed twice.
C2_UncheckedSingleOwner ==
    /\ (dlast.op = "downcast_unchecked" /\ dlast.src.ty = dlast.T) =>
          /\ dlast.out = TypedBox(dlast.src.data, dlast.T)
          /\ dlast.src \notin boxes
          /\ Owners(dlast.src.data) = {dlast.out}
          /\ heap[dlast.src.data] = [type |-> dlast.T, value |-> boxed[dlast.src.data],
                                     status |-> "live"]
    /\ \A id \in DOMAIN heap :
          /\ heap[id].status # "double"
          /\ heap[id].status = "live" <=> Owners(id) # {}
          /\ Cardinality(Owners(id)) <= 1

C2_Witness ==
    /\ dlast.op = "drop"
    /\ dlast.src.kind = "box"
    /\ dlast.src.ty = "MockStream"
    /\ heap[dlast.src.data].type = "MockStream"
    /\ heap[dlast.src.data].status = "freed"
    /\ heap[dlast.src.data].value = boxed[dlast.src.data]

(***************************************************************************)
(* Spec: HttpListener, HttpAcceptor, HttpStream, HttpConnector             *)
(***************************************************************************)
Addrs     == {"127.0.0.1:0"}
CertPaths == {"cert.pem"}
KeyPaths  == {"key.pem"}
Hosts     == {"a.example", "b.example"}
Ports     == {80, 443}
Schemes   == {"http", "https", "ftp", "HTTP", "httpsx", ""}

\* The errors the external calls of this specification fail with.
IoFaults  == {IoError("ConnectionRefused", "io failed", None)}
SslFaults == {SslSessionClosed, OpenSslErrors(<<1, 2>>),
              StreamError(IoError("EndOfFile", "io failed", Some("errno")))}
Closed    == IoError("EndOfFile", "closed", None)

HasFree(used, max) == \E i \in 1..max : i \notin used
FreeId(used, max) ==
    CHOOSE i \in 1..max : i \notin used /\ \A j \in 1..(i - 1) : j \in used
Remove(f, x) == [i \in DOMAIN f \ {x} |-> f[i]]

\* An SslContext's settings; SslContext::new(Sslv23) sets none of them.
SslContextNew == [method |-> "Sslv23", cipher |-> "", cert |-> "", key |-> "",
                  verify |-> ""]
Settings(id) == IF id \in DOMAIN contexts THEN contexts[id] ELSE SslContextNew

\* An Ssl session made from a context: Ssl::new(&context).
SslNew(id, settings, role) ==
    [role |-> role, ctx |-> id, settings |-> settings, hostname |-> ""]
NoSsl == [role |-> "", ctx |-> 0, settings |-> SslContextNew, hostname |-> ""]
set_hostname(ssl, host) == [ssl EXCEPT !.hostname = host]
\* SslStream::new(&context, stream) and new_server(&context, stream) are given a
\* context and a stream: the session they shake hands on is one they make from it.
SslStreamNew(id, settings, role) == SslNew(id, settings, role)

Call(op, res, err, fault, sslerr, attempts, opened, bound, scheme, host, obj, n) ==
    [op |-> op, res |-> res, err |-> err, fault |-> fault, sslerr |-> sslerr,
     attempts |-> attempts, opened |-> opened, bound |-> bound, scheme |-> scheme,
     host |-> host, obj |-> obj, n |-> n]
Plain(op, res, err, fault, obj, n) ==
    Call(op, res, err, fault, NoSslError, 0, {}, {}, "", "", obj, n)

NetInit == /\ passive = <<>>
           /\ boundAs = <<>>
           /\ listeners = {}
           /\ acceptors = {}
           /\ contexts = <<>>
           /\ conns = {}
           /\ streams = <<>>
           /\ hsFailed = {}
           /\ last = Plain("", "", NoIoError, "", 0, 0)
           /\ LiftIdle
           /\ CastIdle

Init == /\ NetInit
        /\ connector = None

InitConnect == /\ NetInit
               /\ connector \in {None, Some("cb")}

(* ------------------------------ HttpListener --------------------------- *)
\* HttpListener::bind: Ok(HttpL(try!(TcpListener::bind(addr))))
bind(addr, r) ==
    /\ r = None => HasFree(DOMAIN passive, MaxSock)
    /\ LET s == FreeId(DOMAIN passive, MaxSock) IN
       IF r = None
       THEN /\ passive' = passive @@ (s :> [state |-> "bound", closed |-> FALSE,
                                            addr |-> addr])
            /\ boundAs' = boundAs @@ (s :> [mode |-> "Plain", ctx |-> 0,
                                            settings |-> SslContextNew])
            /\ hsFailed' = hsFailed \ {s}
            /\ listeners' = listeners \cup {[tag |-> "HttpL", inner |-> s, ctx |-> 0]}
            /\ last' = Call("bind", "Ok", NoIoError, "", NoSslError, 0, {}, {s}, "", "",
                            s, 0)
       ELSE /\ last' = Plain("bind", "Err", r[1], "TcpListener::bind", 0, 0)
            /\ UNCHANGED <<passive, boundAs, hsFailed, listeners>>
    /\ UNCHANGED <<acceptors, contexts, conns, streams, connector, liftVars, castVars>>

CtxCalls == {"SslContext::new", "set_cipher_list", "set_certificate_file",
             "set_private_key_file"}

\* What the external call `call` returned when `fault` is the call that fails.
Returned(call, fault, e) == IF fault = call THEN Some(e) ELSE None

CtxSetterIgnored(r) == FALSE

\* if let Some(err) = ssl_context.set_...(...)
CtxSetterFailed(r) == r # None

\* The outcome of bind_with_ssl up to its last line: the error it returns early
\* with, or the context it has built.
BuildServerContext(cert, key, fault, e) ==
    IF Returned("SslContext::new", fault, e) # None
    THEN [res |-> "Err", err |-> lift_ssl_error(e), settings |-> SslContextNew]
    ELSE IF CtxSetterFailed(Returned("set_cipher_list", fault, e))
    THEN [res |-> "Err", err |-> lift_ssl_error(e), settings |-> SslContextNew]
    ELSE IF CtxSetterFailed(Returned("set_certificate_file", fault, e))
    THEN [res |-> "Err", err |-> lift_ssl_error(e), settings |-> SslContextNew]
    ELSE IF CtxSetterFailed(Returned("set_private_key_file", fault, e))
    THEN [res |-> "Err", err |-> lift_ssl_error(e), settings |-> SslContextNew]
    ELSE [res |-> "Ok", err |-> NoIoError,
          settings |-> [method |-> "Sslv23", cipher |-> "DEFAULT", cert |-> cert,
                        key |-> key, verify |-> "SslVerifyNone"]]

\* The context of a listener is named after the passive socket it is bound with.
bind_with_ssl(addr, cert, key, fault, e, ioe) ==
    /\ LET b == BuildServerContext(cert, key, fault, e)
           s == FreeId(DOMAIN passive, MaxSock)
       IN
       IF b.res = "Err"
       THEN /\ last' = Call("bind_with_ssl", "Err", b.err, fault, e, 0, {}, {}, "", "",
                            0, 0)
            /\ UNCHANGED <<passive, boundAs, hsFailed, listeners, contexts>>
       ELSE IF ioe # NoIoError
       THEN /\ last' = Call("bind_with_ssl", "Err", ioe, fault, e, 0, {}, {}, "", "",
                            0, 0)
            /\ UNCHANGED <<passive, boundAs, hsFailed, listeners, contexts>>
       ELSE /\ HasFree(DOMAIN passive, MaxSock)
            /\ passive' = passive @@ (s :> [state |-> "bound", closed |-> FALSE,
                                            addr |-> addr])
            /\ contexts' = contexts @@ (s :> b.settings)
            /\ boundAs' = boundAs @@ (s :> [mode |-> "Secure", ctx |-> s,
                                            settings |-> b.settings])
            /\ hsFailed' = hsFailed \ {s}
            /\ listeners' = listeners \cup {[tag |-> "HttpsL", inner |-> s, ctx |-> s]}
            /\ last' = Call("bind_with_ssl", "Ok", NoIoError, fault, e, 0, {}, {s},
                            "", "", s, 0)
    /\ UNCHANGED <<acceptors, conns, streams, connector, liftVars, castVars>>

ListenTagPlain(tag) == "HttpA"

\* HttpL(inner) => HttpA(..), HttpsL(inner, ssl_context) => HttpsA(.., Arc::new(ssl_context))
ListenTag(tag) == IF tag = "HttpL" THEN "HttpA" ELSE "HttpsA"

\* listen(self): the listener is moved in; when inner.listen() fails it is dropped,
\* with its socket and its context.
listen(l, r) ==
    /\ l \in listeners
    /\ listeners' = listeners \ {l}
    /\ IF r = None
       THEN /\ passive' = [passive EXCEPT ![l.inner].state = "listening"]
            /\ acceptors' = acceptors \cup
                  {[tag |-> ListenTag(l.tag), inner |-> l.inner,
                    ctx |-> IF l.tag = "HttpL" THEN 0 ELSE l.ctx, n |-> 1]}
            /\ last' = Plain("listen", "Ok", NoIoError, "", l.inner, 1)
            /\ UNCHANGED <<boundAs, hsFailed, contexts>>
       ELSE /\ passive' = Remove(passive, l.inner)
            /\ boundAs' = Remove(boundAs, l.inner)
            /\ hsFailed' = hsFailed \ {l.inner}
            /\ contexts' = Remove(contexts, l.ctx)
            /\ last' = Plain("listen", "Err", r[1], "TcpListener::listen", l.inner, 0)
            /\ UNCHANGED acceptors
    /\ UNCHANGED <<conns, streams, connector, liftVars, castVars>>

socket_name(l, r) ==
    /\ l \in listeners
    /\ last' = IF r = None THEN Plain("socket_name", "Ok", NoIoError, "", l.inner, 0)
               ELSE Plain("socket_name", "Err", r[1], "TcpListener::socket_name",
                          l.inner, 0)
    /\ UNCHANGED <<passive, boundAs, listeners, acceptors, contexts, conns, streams,
                   connector, hsFailed, liftVars, castVars>>

(* ------------------------------ HttpAcceptor --------------------------- *)
Stream(tag, origin, via, ssl, host) ==
    [tag |-> tag, origin |-> origin, via |-> via, ssl |-> ssl, host |-> host]

HandshakeFresh(a) == 0

\* SslStream::new_server(&**ssl_context, stream): the context the acceptor shares.
HandshakeCtx(a) == a.ctx

HandshakeFailedCloses(p, s) == [p EXCEPT ![s].closed = TRUE]

\* try!(SslStream::new_server(..).map_err(lift_ssl_error)) returns the error; inner,
\* borrowed by accept, is left as it is.
HandshakeFailed(p, s) == p

accept(a, fault, e, ioe) ==
    /\ a \in acceptors
    /\ LET s == a.inner
           c == FreeId(conns, MaxConn)
       IN
       IF ioe # NoIoError
       THEN /\ last' = Plain("accept", "Err", ioe, "TcpAcceptor::accept", s, a.n)
            /\ UNCHANGED <<passive, hsFailed, conns, streams>>
       ELSE IF a.tag = "HttpA"
       THEN /\ fault = ""
            /\ HasFree(conns, MaxConn)
            /\ conns' = conns \cup {c}
            /\ streams' = streams @@ (c :> Stream("Http", "accept", s, NoSsl, ""))
            /\ last' = Call("accept", "Ok", NoIoError, "", NoSslError, 0, {c}, {},
                            "", "", s, a.n)
            /\ UNCHANGED <<passive, hsFailed>>
       ELSE IF fault = ""
       THEN /\ HasFree(conns, MaxConn)
            /\ conns' = conns \cup {c}
            /\ streams' = streams @@
                  (c :> Stream("Https", "accept", s,
                               SslStreamNew(HandshakeCtx(a), Settings(HandshakeCtx(a)),
                                            "server"), ""))
            /\ last' = Call("accept", "Ok", NoIoError, "", NoSslError, 0, {c}, {},
                            "", "", s, a.n)
            /\ UNCHANGED <<passive, hsFailed>>
       ELSE \* the handshake fails: new_server, which was given the stream, drops it
            /\ HasFree(conns, MaxConn)
            /\ hsFailed' = hsFailed \cup {s}
            /\ passive' = HandshakeFailed(passive, s)
            /\ last' = Call("accept", "Err", lift_ssl_error(e), fault, e, 0, {c}, {},
                            "", "", s, a.n)
            /\ UNCHANGED <<conns, streams>>
    /\ UNCHANGED <<boundAs, listeners, acceptors, contexts, connector, liftVars, castVars>>

\* NetworkAcceptor::close: inner.close_accept(), on the socket every clone shares.
close(a, r) ==
    /\ a \in acceptors
    /\ IF r = None
       THEN /\ passive' = [passive EXCEPT ![a.inner].closed = TRUE]
            /\ last' = Plain("close", "Ok", NoIoError, "", a.inner, a.n)
       ELSE /\ last' = Plain("close", "Err", r[1], "TcpAcceptor::close_accept",
                             a.inner, a.n)
            /\ UNCHANGED passive
    /\ UNCHANGED <<boundAs, listeners, acceptors, contexts, conns, streams, connector,
                   hsFailed, liftVars, castVars>>

Clones(s) == {b \in acceptors : b.inner = s}

\* #[deriving(Clone)] on HttpAcceptor: TcpAcceptor::clone and Arc::clone.
clone(a) ==
    /\ a \in acceptors
    /\ Cardinality(Clones(a.inner)) < MaxAcc
    /\ acceptors' = acceptors \cup {[a EXCEPT !.n = Cardinality(Clones(a.inner)) + 1]}
    /\ last' = Plain("clone", "Ok", NoIoError, "", a.inner,
                     Cardinality(Clones(a.inner)) + 1)
    /\ UNCHANGED <<passive, boundAs, listeners, contexts, conns, streams, connector,
                   hsFailed, liftVars, castVars>>

(* ------------------------------- HttpStream ---------------------------- *)
StreamCall(op, c, r) ==
    /\ c \in DOMAIN streams
    /\ last' = IF r = None THEN Plain(op, "Ok", NoIoError, "", c, 0)
               ELSE Plain(op, "Err", r[1], "inner", c, 0)
    /\ UNCHANGED <<passive, boundAs, listeners, acceptors, contexts, conns, streams,
                   connector, hsFailed, liftVars, castVars>>

read(c, r)  == StreamCall("read", c, r)
write(c, r) == StreamCall("write", c, r)

\* An HttpStream goes out of scope: its connection is closed.
drop_stream(c) ==
    /\ c \in DOMAIN streams
    /\ conns' = conns \ {c}
    /\ streams' = Remove(streams, c)
    /\ last' = Plain("drop", "Ok", NoIoError, "", c, 0)
    /\ UNCHANGED <<passive, boundAs, listeners, acceptors, contexts, connector,
                   hsFailed, liftVars, castVars>>

(* ------------------------------ HttpConnector -------------------------- *)
SchemeArmPrefix(scheme) ==
    IF scheme \in {"https", "httpsx"} THEN "https"
    ELSE IF scheme \in {"http", "HTTP"} THEN "http"
    ELSE "_"

\* match scheme { "http" => .., "https" => .., _ => .. }
SchemeArm(scheme) ==
    IF scheme = "http" THEN "http" ELSE IF scheme = "https" THEN "https" ELSE "_"

UnwindLeak(open, c) == open

\* try! returns early from connect: the local `stream` goes out of scope.
Unwind(open, c) == open \ {c}

SslCalls == {"SslContext::new", "Ssl::new", "set_hostname", "SslStream::new"}

connect(host, port, scheme, fault, e, ioe) ==
    /\ LET arm == SchemeArm(scheme)
           c == FreeId(conns, MaxConn)
           \* SslContext::new(Sslv23), then set_verify when the connector has a callback
           context == IF connector # None
                      THEN [SslContextNew EXCEPT !.verify = "SslVerifyPeer"]
                      ELSE SslContextNew
           \* let ssl = Ssl::new(&context); ssl.set_hostname(host)
           ssl == set_hostname(SslNew(0, context, "client"), host)
       IN
       IF arm = "_"
       THEN /\ fault = ""
            /\ last' = Call("connect", "Err",
                            IoError("InvalidInput", "Invalid scheme for Http", None),
                            "", NoSslError, 0, {}, {}, scheme, host, 0, 0)
            /\ UNCHANGED <<conns, streams>>
       ELSE IF ioe # NoIoError
       THEN /\ last' = Call("connect", "Err", ioe, fault, e, 1, {}, {}, scheme, host,
                            0, 0)
            /\ UNCHANGED <<conns, streams>>
       ELSE IF arm = "http"
       THEN /\ fault = ""
            /\ HasFree(conns, MaxConn)
            /\ conns' = conns \cup {c}
            /\ streams' = streams @@ (c :> Stream("Http", "connect", 0, NoSsl, host))
            /\ last' = Call("connect", "Ok", NoIoError, "", e, 1, {c}, {}, scheme, host,
                            c, 0)
       ELSE IF fault # ""
       THEN /\ HasFree(conns, MaxConn)
            /\ conns' = Unwind(conns \cup {c}, c)
            /\ last' = Call("connect", "Err", lift_ssl_error(e), fault, e, 1, {c}, {},
                            scheme, host, 0, 0)
            /\ UNCHANGED streams
       ELSE \* SslStream::new(&context, stream): `ssl`, which has the hostname, is not
            \* handed to it and goes out of scope unused
            /\ HasFree(conns, MaxConn)
            /\ conns' = conns \cup {c}
            /\ streams' = streams @@
                  (c :> Stream("Https", "connect", 0, SslStreamNew(0, context, "client"),
                               host))
            /\ last' = Call("connect", "Ok", NoIoError, "", e, 1, {c}, {}, scheme, host,
                            c, 0)
    /\ UNCHANGED <<passive, boundAs, listeners, acceptors, contexts, connector, hsFailed,
                   liftVars, castVars>>

(* ------------------------------ specifications ------------------------- *)
Results == {None} \cup {Some(x) : x \in IoFaults}

\* The errors an external call can have failed with when `fault` names the failed call.
SslOutcomes(fault, calls) == IF fault \in calls THEN SslFaults ELSE {NoSslError}
IoOutcomes(fault, call)   == IF fault = call THEN IoFaults ELSE {NoIoError}
AcceptOutcomes(a, fault)  ==
    IF passive[a.inner].closed THEN {Closed}
    ELSE IoOutcomes(fault, "TcpAcceptor::accept")

Next ==
    \/ \E addr \in Addrs, r \in Results : bind(addr, r)
    \/ \E addr \in Addrs, cert \in CertPaths, key \in KeyPaths,
          fault \in CtxCalls \cup {"TcpListener::bind", ""} :
          \E e \in SslOutcomes(fault, CtxCalls),
             ioe \in IoOutcomes(fault, "TcpListener::bind") :
             bind_with_ssl(addr, cert, key, fault, e, ioe)
    \/ \E l \in listeners, r \in Results : listen(l, r)
    \/ \E l \in listeners, r \in Results : socket_name(l, r)
    \/ \E a \in acceptors,
          fault \in {"", "TcpAcceptor::accept", "SslStream::new_server"} :
          \E e \in SslOutcomes(fault, {"SslStream::new_server"}),
             ioe \in AcceptOutcomes(a, fault) :
             accept(a, fault, e, ioe)
    \/ \E a \in acceptors, r \in Results : close(a, r)
    \/ \E a \in acceptors : clone(a)
    \/ \E c \in DOMAIN streams, r \in Results : read(c, r)
    \/ \E c \in DOMAIN streams, r \in Results : write(c, r)
    \/ \E c \in DOMAIN streams : drop_stream(c)

Spec == Init /\ [][Next]_vars

NextConnect ==
    \/ \E host \in Hosts, port \in Ports, scheme \in Schemes,
          fault \in SslCalls \cup {"TcpStream::connect", ""} :
          \E e \in SslOutcomes(fault, SslCalls),
             ioe \in IoOutcomes(fault, "TcpStream::connect") :
             connect(host, port, scheme, fault, e, ioe)
    \/ \E c \in DOMAIN streams, r \in Results : read(c, r)
    \/ \E c \in DOMAIN streams, r \in Results : write(c, r)
    \/ \E c \in DOMAIN streams : drop_stream(c)

SpecConnect == InitConnect /\ [][NextConnect]_vars

(***************************************************************************)
(* Properties of HttpConnector::connect (SpecConnect)                      *)
(***************************************************************************)
\* C3: connect with a scheme other than exactly "http" and "https" returns an
\* InvalidInput error, makes no connection attempt, and leaves the open connections,
\* streams, sockets and contexts as they were.
C3_InvalidScheme ==
    [][(last'.op = "connect" /\ last'.scheme \notin {"http", "https"}) =>
          /\ last'.res = "Err"
          /\ last'.err.kind = "InvalidInput"
          /\ last'.attempts = 0
          /\ last'.opened = {}
          /\ conns' = conns
          /\ streams' = streams
          /\ passive' = passive
          /\ contexts' = contexts]_vars

C3_Witness ==
    /\ last.op = "connect"
    /\ last.scheme = "ftp"
    /\ last.res = "Err"
    /\ last.err = IoError("InvalidInput", "Invalid scheme for Http", None)
    /\ conns = {1}

\* C4: when an https connect fails after its TCP connection was opened (context
\* construction, session creation, set_hostname or the handshake fails), it returns
\* an error and the connection it opened is closed: every open connection belongs
\* to a stream the caller holds.
C4_NoLeakOnFailure ==
    /\ (last.op = "connect" /\ last.scheme = "https" /\ last.fault \in SslCalls) =>
          /\ last.res = "Err"
          /\ last.opened # {}
          /\ last.opened \cap conns = {}
    /\ conns = DOMAIN streams

C4_Witness ==
    /\ last.op = "connect"
    /\ last.scheme = "https"
    /\ last.fault = "SslStream::new"
    /\ last.res = "Err"
    /\ last.err.kind = "ConnectionAborted"
    /\ last.opened = {1}
    /\ conns = {}

\* C8: the session whose handshake produced the Secure stream that an https connect
\* returned is a session on which the hostname `host` was set.
C8_HostnameSetForHandshake ==
    \A c \in DOMAIN streams :
        (streams[c].origin = "connect" /\ streams[c].tag = "Https") =>
            streams[c].ssl.hostname = streams[c].host

(***************************************************************************)
(* Properties of HttpListener and HttpAcceptor (Spec)                      *)
(***************************************************************************)
Owned(s) == (\E l \in listeners : l.inner = s) \/ Clones(s) # {}

\* C5: when bind_with_ssl fails while building the context (SslContext::new, the
\* cipher list, the certificate file or the private-key file), it returns the
\* secure-library error passed through lift_ssl_error, it has opened no passive
\* socket, and no passive socket is left open without a listener or acceptor.
C5_ContextFailure ==
    /\ (last.op = "bind_with_ssl" /\ last.fault \in CtxCalls) =>
          /\ last.res = "Err"
          /\ last.err = lift_ssl_error(last.sslerr)
          /\ last.bound = {}
    /\ \A s \in DOMAIN passive : Owned(s)

C5_Witness ==
    /\ last.op = "bind_with_ssl"
    /\ last.fault = "set_certificate_file"
    /\ last.sslerr.variant = "OpenSslErrors"
    /\ last.res = "Err"
    /\ last.err.kind = "OtherIoError"
    /\ passive = <<>>

\* C7: an accept that fails in the server-side handshake returns the lifted error
\* and leaves the acceptors, their passive sockets (not closed) and the shared
\* contexts as they were, whatever failed before.
C7_AcceptorSurvivesHandshakeFailure ==
    [][(last'.op = "accept" /\ last'.fault = "SslStream::new_server") =>
          /\ last'.res = "Err"
          /\ last'.err = lift_ssl_error(last'.sslerr)
          /\ acceptors' = acceptors
          /\ passive' = passive
          /\ contexts' = contexts
          /\ conns' = conns
          /\ streams' = streams]_vars

\* A clone of the acceptor returns a stream after a handshake failed on its socket.
C7_Witness ==
    /\ last.op = "accept"
    /\ last.res = "Ok"
    /\ last.obj \in hsFailed
    /\ last.n = 2
    /\ \E c \in last.opened : c \in DOMAIN streams /\ streams[c].tag = "Https"

\* C9: the context built by bind_with_ssl is, unmodified, the one every listener and
\* every acceptor handle of that socket refers to and the one every server-side
\* handshake of a connection accepted from it was made with.
C9_SharedContext ==
    /\ \A s \in DOMAIN boundAs :
          boundAs[s].mode = "Secure" =>
              /\ boundAs[s].ctx \in DOMAIN contexts
              /\ contexts[boundAs[s].ctx] = boundAs[s].settings
    /\ \A l \in listeners : l.tag = "HttpsL" => l.ctx = boundAs[l.inner].ctx
    /\ \A a \in acceptors : a.tag = "HttpsA" => a.ctx = boundAs[a.inner].ctx
    /\ \A c \in DOMAIN streams :
          (streams[c].origin = "accept" /\ streams[c].tag = "Https") =>
              /\ streams[c].ssl.role = "server"
              /\ streams[c].ssl.ctx = boundAs[streams[c].via].ctx
              /\ streams[c].ssl.settings = boundAs[streams[c].via].settings

C9_Witness ==
    /\ last.op = "write"
    /\ last.obj \in DOMAIN streams
    /\ streams[last.obj].tag = "Https"
    /\ streams[last.obj].ssl.settings.cert = "cert.pem"
    /\ streams[last.obj].ssl.settings.verify = "SslVerifyNone"
    /\ Cardinality(Clones(streams[last.obj].via)) = 2
    /\ passive[streams[last.obj].via].closed

C10_State ==
    /\ \A l \in listeners :
          /\ l.inner \in DOMAIN passive
          /\ passive[l.inner].state = "bound"
          /\ Clones(l.inner) = {}
          /\ l.tag = (IF boundAs[l.inner].mode = "Plain" THEN "HttpL" ELSE "HttpsL")
    /\ \A a \in acceptors :
          /\ a.inner \in DOMAIN passive
          /\ passive[a.inner].state = "listening"
          /\ a.tag = (IF boundAs[a.inner].mode = "Plain" THEN "HttpA" ELSE "HttpsA")
    /\ \A c \in DOMAIN streams :
          streams[c].origin = "accept" =>
              streams[c].tag = (IF boundAs[streams[c].via].mode = "Plain" THEN "Http"
                                ELSE "Https")

C10_Step ==
    /\ \A s \in DOMAIN passive :
          passive[s].state = "listening" =>
              s \in DOMAIN passive' /\ passive'[s].state = "listening"
    /\ acceptors \subseteq acceptors'
    /\ \A a \in acceptors' \ acceptors :
          \/ /\ last'.op = "listen"
             /\ last'.res = "Ok"
             /\ \E l \in listeners \ listeners' : l.inner = a.inner
          \/ /\ last'.op = "clone"
             /\ \E b \in acceptors : [b EXCEPT !.n = a.n] = a
    /\ \A l \in listeners' \ listeners :
          /\ last'.op \in {"bind", "bind_with_ssl"}
          /\ last'.res = "Ok"
          /\ l.inner \notin DOMAIN passive
    /\ last'.op = "listen" => \E l \in listeners : l \notin listeners'

\* C10: the lifecycle only moves forward: a listener is the result of a successful
\* bind or bind_with_ssl on a new socket, an acceptor the result of listen on a
\* listener (or a clone of one), listen consumes its listener, a listening socket
\* stays listening, and the mode is kept from bind through listen to the streams
\* that accept returns.
C10_Lifecycle == []C10_State /\ [][C10_Step]_vars

C10_Witness ==
    /\ last.op = "accept"
    /\ last.res = "Ok"
    /\ listeners = {}
    /\ boundAs[last.obj].mode = "Plain"
    /\ \E c \in last.opened : c \in DOMAIN streams /\ streams[c].tag = "Http"

====
